---------------------------- MODULE Spec2Model ----------------------------
(***************************************************************************)
(* A model of the web scraper with LLM analysis: the LLM runner            *)
(* (src/src/LLM_run.rs) and the interactive front end (src/src/main.rs).   *)
(*                                                                         *)
(* Texts.  A completion is a sequence of tokens; a token is one character  *)
(* or one literal the code looks for ("SUMMARY:", "nan", ...), so that     *)
(* starts_with, replace, contains, trim and lines act on tokens exactly as *)
(* the code's string functions act on the characters.                      *)
(*                                                                         *)
(* Contents.  The scraped content is a sequence of runs [w, n]: n          *)
(* characters of w UTF-8 bytes each.  str::len counts bytes and            *)
(* &s[..k] slices bytes, panicking when k is not a character boundary.     *)
(***************************************************************************)
EXTENDS Integers, Sequences, FiniteSets, TLC

VARIABLES
    pc,       \* position of the call / of main
    content,  \* the content argument (main: combined_scrapped_content)
    arg,      \* the extra argument (max_topics; main: the CSS selector)
    wire,     \* outcome of the HTTP exchange of the request in flight
    sent,     \* the prompts handed to the endpoint, one per HTTP POST
    result,   \* what the last operation returned
    exit,     \* main: the process exit code, -1 while running
    log       \* main: what was printed, in order

vars == <<pc, content, arg, wire, sent, result, exit, log>>

----------------------------------------------------------------------------
(* Bounds of the model *)

MaxRuns == 2         \* runs in a content
MaxLines == 4        \* lines of a completion of analyze_web_content
MaxMembers == 3      \* members of a JSON object completion
MaxWords == 3        \* tokens of a free-text completion
MaxRelLen == 4       \* tokens of a completion of check_relevance
MaxCandidates == 2   \* candidates of a response envelope
MaxParts == 2        \* parts of a candidate
MaxTopics == 2       \* max_topics argument of extract_topics

(* Program constants *)

AnalyzeLimit == 3000
SummarizeLimit == 4000
TopicsLimit == 4000
ClassifyLimit == 2000
RelevanceLimit == 3000
SnippetLimit == 500

----------------------------------------------------------------------------
(* Contents: byte-indexed strings *)

RECURSIVE ByteLen(_)
ByteLen(c) == IF c = <<>> THEN 0 ELSE Head(c).w * Head(c).n + ByteLen(Tail(c))

RECURSIVE CharLen(_)
CharLen(c) == IF c = <<>> THEN 0 ELSE Head(c).n + CharLen(Tail(c))

\* str::is_char_boundary(k)
RECURSIVE IsCharBoundary(_, _)
IsCharBoundary(c, k) ==
    IF k = 0 THEN TRUE
    ELSE IF c = <<>> THEN FALSE
    ELSE LET b == Head(c).w * Head(c).n
         IN  IF k >= b THEN IsCharBoundary(Tail(c), k - b)
             ELSE k % Head(c).w = 0

\* &c[..k] for a k that is a character boundary
RECURSIVE SliceTo(_, _)
SliceTo(c, k) ==
    IF k = 0 \/ c = <<>> THEN <<>>
    ELSE LET b == Head(c).w * Head(c).n
         IN  IF k >= b THEN <<Head(c)>> \o SliceTo(Tail(c), k - b)
             ELSE <<[w |-> Head(c).w, n |-> k \div Head(c).w]>>

\* if content.len() > limit { &content[..limit] } else { content }
Truncate(c, limit) ==
    IF ByteLen(c) > limit
    THEN IF IsCharBoundary(c, limit)
         THEN [panic |-> FALSE, text |-> SliceTo(c, limit)]
         ELSE [panic |-> TRUE, text |-> <<>>]
    ELSE [panic |-> FALSE, text |-> c]


----------------------------------------------------------------------------
(* Texts: sequences of tokens *)

Whitespace == {" ", "\n", "\r", "\t"}

RECURSIVE TrimStart(_)
TrimStart(s) ==
    IF s # <<>> /\ Head(s) \in Whitespace THEN TrimStart(Tail(s)) ELSE s

RECURSIVE TrimEnd(_)
TrimEnd(s) ==
    IF s # <<>> /\ s[Len(s)] \in Whitespace
    THEN TrimEnd(SubSeq(s, 1, Len(s) - 1)) ELSE s

\* str::trim
Trim(s) == TrimEnd(TrimStart(s))

\* index of the first "\n" of s, 0 when there is none
FirstNewline(s) ==
    IF \E i \in 1..Len(s) : s[i] = "\n"
    THEN CHOOSE i \in 1..Len(s) : s[i] = "\n" /\ \A j \in 1..(i - 1) : s[j] # "\n"
    ELSE 0

StripCR(s) ==
    IF s # <<>> /\ s[Len(s)] = "\r" THEN SubSeq(s, 1, Len(s) - 1) ELSE s

\* str::lines: split at "\n", a final empty line is dropped
RECURSIVE Lines(_)
Lines(s) ==
    IF s = <<>> THEN <<>>
    ELSE LET i == FirstNewline(s)
         IN  IF i = 0 THEN <<StripCR(s)>>
             ELSE <<StripCR(SubSeq(s, 1, i - 1))>> \o Lines(SubSeq(s, i + 1, Len(s)))

\* str::starts_with(tok)
StartsWith(s, tok) == s # <<>> /\ s[1] = tok

\* str::replace(tok, ""): every occurrence of tok is removed
Replace(s, tok) == SelectSeq(s, LAMBDA t : t # tok)

\* lines joined by "\n"
RECURSIVE JoinLines(_)
JoinLines(ls) ==
    IF ls = <<>> THEN <<>>
    ELSE IF Len(ls) = 1 THEN ls[1]
    ELSE ls[1] \o <<"\n">> \o JoinLines(Tail(ls))

\* the sequences over S of length at most n
SeqsUpTo(S, n) == UNION {[1..k -> S] : k \in 0..n}

----------------------------------------------------------------------------
(* send_prompt: one HTTP POST and the decoding of its response *)

Reply(ok, err, text) == [ok |-> ok, err |-> err, text |-> text]

SendFailed ==
    [kind |-> "send_failed", success |-> FALSE, readable |-> FALSE,
     body |-> <<>>, candidates |-> <<>>]

\* a response with a non-2xx status; readable: its body could be read
Non2xx(readable, body) ==
    [kind |-> "status", success |-> FALSE, readable |-> readable,
     body |-> body, candidates |-> <<>>]

\* a 2xx response; readable: its body was read and decoded as GeminiResponse
Ok2xx(readable, candidates) ==
    [kind |-> "status", success |-> TRUE, readable |-> readable,
     body |-> <<>>, candidates |-> candidates]

SendPromptReply(w) ==
    IF w.kind = "send_failed" THEN Reply(FALSE, "transport", <<>>)
    ELSE IF w.success
    THEN IF ~w.readable THEN Reply(FALSE, "decode", <<>>)
         ELSE IF w.candidates # <<>> /\ Head(w.candidates) # <<>>
         THEN Reply(TRUE, "", Head(Head(w.candidates)))
         ELSE Reply(FALSE, "No response from LLM", <<>>)
    ELSE IF ~w.readable THEN Reply(FALSE, "transport", <<>>)
         ELSE Reply(FALSE, "API request failed: ", w.body)

\* a variant that posts again after a failure
SendPromptRetry(prompt, w) ==
    [reply |-> SendPromptReply(w),
     posted |-> IF SendPromptReply(w).ok THEN <<prompt>> ELSE <<prompt, prompt>>]

\* the reply of send_prompt(prompt) and the POSTs it issued
SendPrompt(prompt, w) ==
    [reply |-> SendPromptReply(w), posted |-> <<prompt>>]

Prompt(op, text) == [op |-> op, content |-> text]

NoResult == [tag |-> "none", op |-> "", val |-> <<>>, err |-> Reply(TRUE, "", <<>>)]
Panicked(op) == [tag |-> "panic", op |-> op, val |-> <<>>, err |-> Reply(TRUE, "", <<>>)]
Failed(op, reply) == [tag |-> "err", op |-> op, val |-> <<>>, err |-> reply]
Returned(op, val) == [tag |-> "ok", op |-> op, val |-> val, err |-> Reply(TRUE, "", <<>>)]

----------------------------------------------------------------------------
(* analyze_web_content: line-prefix parsing *)

Prefixes == {"SUMMARY:", "SENTIMENT:", "TOPICS:", "CATEGORY:"}

Analysis(s, e, t, c) == [summary |-> s, sentiment |-> e, key_topics |-> t, category |-> c]

\* the body of the loop over response.lines()
ScanLine(acc, rawline) ==
    LET line == Trim(rawline)
    IN  IF StartsWith(line, "SUMMARY:")
        THEN [acc EXCEPT !.summary = Trim(Replace(line, "SUMMARY:"))]
        ELSE IF StartsWith(line, "SENTIMENT:")
        THEN [acc EXCEPT !.sentiment = Trim(Replace(line, "SENTIMENT:"))]
        ELSE IF StartsWith(line, "TOPICS:")
        THEN [acc EXCEPT !.key_topics = Trim(Replace(line, "TOPICS:"))]
        ELSE IF StartsWith(line, "CATEGORY:")
        THEN [acc EXCEPT !.category = Trim(Replace(line, "CATEGORY:"))]
        ELSE acc

RECURSIVE ScanLines(_, _)
ScanLines(acc, ls) ==
    IF ls = <<>> THEN acc ELSE ScanLines(ScanLine(acc, Head(ls)), Tail(ls))

\* a variant that applies every default only when the summary is empty
FallbackCoupled(a, response) ==
    IF a.summary = <<>>
    THEN Analysis(response, <<"NEUTRAL">>, <<"General">>, <<"General">>)
    ELSE a

\* the fallbacks applied once the scan is over
Fallback(a, response) ==
    Analysis(IF a.summary = <<>> THEN response ELSE a.summary,
             IF a.sentiment = <<>> THEN <<"NEUTRAL">> ELSE a.sentiment,
             IF a.key_topics = <<>> THEN <<"General">> ELSE a.key_topics,
             IF a.category = <<>> THEN <<"General">> ELSE a.category)

ParseAnalysis(response) ==
    Fallback(ScanLines(Analysis(<<>>, <<>>, <<>>, <<>>), Lines(response)), response)

----------------------------------------------------------------------------
(* analyze_sentiment: structured-object parsing with a textual fallback *)

JsonStrings == {"\"label\"", "\"confidence\"", "\"explanation\"", "\"other\"",
                "\"POSITIVE\"", "\"MIXED\""}
JsonNumbers == {"0.8", "1.5"}

\* the text of a JSON string token
StringValue(tok) ==
    CASE tok = "\"label\"" -> <<"label">>
      [] tok = "\"confidence\"" -> <<"confidence">>
      [] tok = "\"explanation\"" -> <<"explanation">>
      [] tok = "\"other\"" -> <<"other">>
      [] tok = "\"POSITIVE\"" -> <<"POSITIVE">>
      [] tok = "\"MIXED\"" -> <<"MIXED">>

\* floating-point values are kept in thousandths
F(units, thousandths) == units * 1000 + thousandths

NumberValue(tok) ==
    CASE tok = "0.8" -> F(0, 800)
      [] tok = "1.5" -> F(1, 500)

\* char::to_lowercase, token by token
LowerToken(tok) ==
    CASE tok = "POSITIVE" -> "positive"
      [] tok = "Negative" -> "negative"
      [] tok = "\"POSITIVE\"" -> "\"positive\""
      [] tok = "\"MIXED\"" -> "\"mixed\""
      [] OTHER -> tok

ToLowercase(s) == [i \in 1..Len(s) |-> LowerToken(s[i])]

\* the tokens whose characters contain the word
TokensContaining(word) ==
    CASE word = "positive" -> {"positive", "\"positive\""}
      [] word = "negative" -> {"negative", "\"negative\""}

\* str::contains(word)
Contains(s, word) == \E i \in 1..Len(s) : s[i] \in TokensContaining(word)

NoJson == [ok |-> FALSE, label |-> <<>>, confidence |-> 0, explanation |-> <<>>]

\* serde_json::from_str::<ParsedSentimentLLMResponse>: an object with the keys
\* label (string), confidence (number), explanation (string), each once;
\* other keys are skipped; whitespace between tokens is skipped
DecodeSentiment(text) ==
    LET js == SelectSeq(text, LAMBDA t : t \notin Whitespace)
        k == (Len(js) - 1) \div 4
        Key(i) == js[4 * i - 2]
        Val(i) == js[4 * i]
        Members(name) == {i \in 1..k : StringValue(Key(i)) = <<name>>}
        The(name) == Val(CHOOSE i \in 1..k : i \in Members(name))
    IN  IF /\ Len(js) >= 2
           /\ js[1] = "{"
           /\ js[Len(js)] = "}"
           /\ (Len(js) = 2 \/ Len(js) = 4 * k + 1)
           /\ \A i \in 1..k :
                /\ Key(i) \in JsonStrings
                /\ js[4 * i - 1] = ":"
                /\ Val(i) \in JsonStrings \cup JsonNumbers
                /\ (i < k => js[4 * i + 1] = ",")
           /\ Len(js) > 2
           /\ Cardinality(Members("label")) = 1
           /\ Cardinality(Members("confidence")) = 1
           /\ Cardinality(Members("explanation")) = 1
           /\ The("label") \in JsonStrings
           /\ The("confidence") \in JsonNumbers
           /\ The("explanation") \in JsonStrings
        THEN [ok |-> TRUE, label |-> StringValue(The("label")),
              confidence |-> NumberValue(The("confidence")),
              explanation |-> StringValue(The("explanation"))]
        ELSE NoJson

Sentiment(l, c, e) == [label |-> l, confidence |-> c, explanation |-> e]

\* a variant that searches the text without lowercasing it
FallbackLabelCaseSensitive(text) ==
    IF Contains(text, "positive") THEN <<"POSITIVE">>
    ELSE IF Contains(text, "negative") THEN <<"NEGATIVE">>
    ELSE <<"NEUTRAL">>

\* the label of the Err(e) arm
FallbackLabel(text) ==
    IF Contains(ToLowercase(text), "positive") THEN <<"POSITIVE">>
    ELSE IF Contains(ToLowercase(text), "negative") THEN <<"NEGATIVE">>
    ELSE <<"NEUTRAL">>

\* the match on serde_json::from_str
ParseSentiment(text) ==
    LET parsed == DecodeSentiment(text)
    IN  IF parsed.ok
        THEN Sentiment(parsed.label, parsed.confidence * 100, parsed.explanation)
        ELSE Sentiment(FallbackLabel(text), F(50, 0), text)

----------------------------------------------------------------------------
(* check_relevance: numeric parsing and clamping *)

Digits == {"4", "2", "5"}

DigitValue(tok) == CASE tok = "4" -> 4 [] tok = "2" -> 2 [] tok = "5" -> 5

RECURSIVE Pow10(_)
Pow10(n) == IF n = 0 THEN 1 ELSE 10 * Pow10(n - 1)

\* the fraction of a score is kept in units of 10^-MaxRelLen
Scale == Pow10(MaxRelLen)

Num(int, frac) == [kind |-> "num", neg |-> FALSE, int |-> int, frac |-> frac]
Neg(x) == [x EXCEPT !.neg = ~x.neg]
NaN == [kind |-> "nan", neg |-> FALSE, int |-> 0, frac |-> 0]
Inf == [kind |-> "inf", neg |-> FALSE, int |-> 0, frac |-> 0]
Zero == Num(0, 0)
Hundred == Num(100, 0)

RECURSIVE DecimalValue(_)
DecimalValue(ds) ==
    IF ds = <<>> THEN 0
    ELSE DecimalValue(SubSeq(ds, 1, Len(ds) - 1)) * 10 + DigitValue(ds[Len(ds)])

NoF64 == [ok |-> FALSE, val |-> Zero]

\* str::parse::<f64>: [sign] (digits [. digits] | . digits | nan | inf)
ParseF64(s) ==
    LET signed == s # <<>> /\ s[1] \in {"+", "-"}
        neg == s # <<>> /\ s[1] = "-"
        body == IF signed THEN Tail(s) ELSE s
        dots == {i \in 1..Len(body) : body[i] = "."}
        dot == IF dots = {} THEN Len(body) + 1 ELSE CHOOSE i \in dots : TRUE
        int == SubSeq(body, 1, dot - 1)
        frac == SubSeq(body, dot + 1, Len(body))
        mag == Num(DecimalValue(int),
                   DecimalValue(frac) * Pow10(MaxRelLen - Len(frac)))
    IN  IF body = <<>> THEN NoF64
        ELSE IF body = <<"nan">> THEN [ok |-> TRUE, val |-> NaN]
        ELSE IF body = <<"inf">>
        THEN [ok |-> TRUE, val |-> IF neg THEN Neg(Inf) ELSE Inf]
        ELSE IF /\ \A i \in 1..Len(body) : body[i] \in Digits \cup {"."}
                /\ Cardinality(dots) <= 1
                /\ Len(int) + Len(frac) >= 1
        THEN [ok |-> TRUE, val |-> IF neg THEN Neg(mag) ELSE mag]
        ELSE NoF64

\* |a| < |b| for numbers and infinities
MagLess(a, b) ==
    IF a.kind = "inf" THEN FALSE
    ELSE IF b.kind = "inf" THEN TRUE
    ELSE a.int < b.int \/ (a.int = b.int /\ a.frac < b.frac)

IsZero(a) == a.kind = "num" /\ a.int = 0 /\ a.frac = 0

\* a < b on f64: false when either is NaN
Less(a, b) ==
    /\ a.kind # "nan"
    /\ b.kind # "nan"
    /\ IF a.neg = b.neg
       THEN IF a.neg THEN MagLess(b, a) ELSE MagLess(a, b)
       ELSE a.neg /\ ~(IsZero(a) /\ IsZero(b))

\* f64::min and f64::max: a NaN operand yields the other operand
F64Min(a, b) ==
    IF a.kind = "nan" THEN b ELSE IF b.kind = "nan" THEN a
    ELSE IF Less(b, a) THEN b ELSE a

F64Max(a, b) ==
    IF a.kind = "nan" THEN b ELSE IF b.kind = "nan" THEN a
    ELSE IF Less(a, b) THEN b ELSE a

\* a variant without the final .max(0.0)
RelevanceNoLowerClamp(response) ==
    LET parsed == ParseF64(Trim(response))
        score == IF parsed.ok THEN parsed.val ELSE Zero
    IN  F64Min(score, Hundred)

\* response.trim().parse::<f64>().unwrap_or(0.0), then .min(100.0).max(0.0)
Relevance(response) ==
    LET parsed == ParseF64(Trim(response))
        score == IF parsed.ok THEN parsed.val ELSE Zero
    IN  F64Max(F64Min(score, Hundred), Zero)

----------------------------------------------------------------------------
(* extract_topics: line-list parsing *)

Take(s, n) == SubSeq(s, 1, IF n < Len(s) THEN n ELSE Len(s))

Topics(response, max_topics) ==
    LET kept == SelectSeq(Lines(response), LAMBDA l : Trim(l) # <<>>)
    IN  Take([i \in 1..Len(kept) |-> Trim(kept[i])], max_topics)

----------------------------------------------------------------------------
(* The operations of LLMRunner.  Each action is one call: the prompt is    *)
(* built from the truncated content, send_prompt is awaited, and the       *)
(* completion is parsed.                                                   *)

Outcome(op, reply, val) ==
    IF reply.ok THEN Returned(op, val) ELSE Failed(op, reply)

Idle == /\ pc = "ready"
        /\ pc' = "done"
        /\ UNCHANGED <<content, arg, wire, exit, log>>

send_prompt ==
    /\ Idle
    /\ LET s == SendPrompt(Prompt("send_prompt", content), wire)
       IN  /\ sent' = sent \o s.posted
           /\ result' = Outcome("send_prompt", s.reply, s.reply.text)

analyze_web_content ==
    /\ Idle
    /\ LET t == Truncate(content, AnalyzeLimit)
           s == SendPrompt(Prompt("analyze_web_content", t.text), wire)
       IN  IF t.panic
           THEN sent' = sent /\ result' = Panicked("analyze_web_content")
           ELSE /\ sent' = sent \o s.posted
                /\ result' = Outcome("analyze_web_content", s.reply,
                                     ParseAnalysis(s.reply.text))

analyze_sentiment ==
    /\ Idle
    /\ LET s == SendPrompt(Prompt("analyze_sentiment", content), wire)
       IN  /\ sent' = sent \o s.posted
           /\ result' = Outcome("analyze_sentiment", s.reply,
                                ParseSentiment(s.reply.text))

summarize_content ==
    /\ Idle
    /\ LET t == Truncate(content, SummarizeLimit)
           s == SendPrompt(Prompt("summarize_content", t.text), wire)
       IN  IF t.panic
           THEN sent' = sent /\ result' = Panicked("summarize_content")
           ELSE /\ sent' = sent \o s.posted
                /\ result' = Outcome("summarize_content", s.reply, s.reply.text)

extract_topics ==
    /\ Idle
    /\ LET t == Truncate(content, TopicsLimit)
           s == SendPrompt(Prompt("extract_topics", t.text), wire)
       IN  IF t.panic
           THEN sent' = sent /\ result' = Panicked("extract_topics")
           ELSE /\ sent' = sent \o s.posted
                /\ result' = Outcome("extract_topics", s.reply,
                                     Topics(s.reply.text, arg))

classify_content ==
    /\ Idle
    /\ LET t == Truncate(content, ClassifyLimit)
           s == SendPrompt(Prompt("classify_content", t.text), wire)
       IN  IF t.panic
           THEN sent' = sent /\ result' = Panicked("classify_content")
           ELSE /\ sent' = sent \o s.posted
                /\ result' = Outcome("classify_content", s.reply, s.reply.text)

check_relevance ==
    /\ Idle
    /\ LET t == Truncate(content, RelevanceLimit)
           s == SendPrompt(Prompt("check_relevance", t.text), wire)
       IN  IF t.panic
           THEN sent' = sent /\ result' = Panicked("check_relevance")
           ELSE /\ sent' = sent \o s.posted
                /\ result' = Outcome("check_relevance", s.reply,
                                     Relevance(s.reply.text))

----------------------------------------------------------------------------
(* Inputs *)

Widths == {1, 2, 3, 4}
RunCounts == {1, 499, 500, 1999, 2000, 2999, 3000, 3999, 4000}
Runs == [w : Widths, n : RunCounts]
Contents(k) == SeqsUpTo(Runs, k)

ShortContent == <<[w |-> 1, n |-> 1]>>

\* the exchange that delivers a completion, and the exchanges that fail
Delivers(completion) == Ok2xx(TRUE, <<<<completion>>>>)

Failures ==
    {SendFailed, Non2xx(TRUE, <<"e">>), Non2xx(FALSE, <<>>),
     Ok2xx(FALSE, <<>>), Ok2xx(TRUE, <<>>), Ok2xx(TRUE, <<<<>>>>)}

InitCall(contents, args) ==
    /\ pc = "ready"
    /\ content \in contents
    /\ arg \in args
    /\ sent = <<>>
    /\ result = NoResult
    /\ exit = -1
    /\ log = <<>>

(* Truncation: every operation that embeds the content *)

InitTrunc ==
    /\ InitCall(Contents(MaxRuns), 0..MaxTopics)
    /\ wire \in {SendFailed, Delivers(<<"x", "\n", "y">>)}

NextTrunc ==
    \/ analyze_web_content
    \/ summarize_content
    \/ extract_topics
    \/ classify_content
    \/ check_relevance

SpecTrunc == InitTrunc /\ [][NextTrunc]_vars

(* send_prompt over every response envelope *)

PartTexts == {<<>>, <<"x">>, <<"y">>}
Envelopes(parts, candidates) == SeqsUpTo(SeqsUpTo(PartTexts, parts), candidates)

InitSend ==
    /\ InitCall({<<>>, ShortContent}, {0})
    /\ \/ wire \in Failures
       \/ \E e \in Envelopes(MaxParts, MaxCandidates) : wire = Ok2xx(TRUE, e)

NextSend == send_prompt

SpecSend == InitSend /\ [][NextSend]_vars

(* analyze_web_content over completions made of lines *)

WebLines ==
    {<<>>, <<"x">>, <<"x", "SUMMARY:">>,
     <<"SUMMARY:">>, <<"SUMMARY:", " ", "x">>, <<" ", "SUMMARY:", "x", "SUMMARY:">>,
     <<"SENTIMENT:", "x">>, <<"TOPICS:", " ">>, <<"TOPICS:", "x", " ">>,
     <<"CATEGORY:">>, <<" ", "CATEGORY:", "x">>}

InitWeb ==
    /\ InitCall({ShortContent}, {0})
    /\ \/ wire \in Failures
       \/ \E ls \in SeqsUpTo(WebLines, MaxLines) : wire = Delivers(JoinLines(ls))

NextWeb == analyze_web_content

SpecWeb == InitWeb /\ [][NextWeb]_vars

(* analyze_sentiment over JSON objects, wrapped or not, and free text *)

Members == {"\"label\"", "\"confidence\"", "\"explanation\"", "\"other\""}
           \X {"\"POSITIVE\"", "\"MIXED\"", "0.8", "1.5"}

RECURSIVE RenderMembers(_)
RenderMembers(ms) ==
    IF ms = <<>> THEN <<>>
    ELSE <<ms[1][1], ":", ms[1][2]>>
         \o (IF Len(ms) = 1 THEN <<>> ELSE <<",">> \o RenderMembers(Tail(ms)))

RenderObject(ms) == <<"{">> \o RenderMembers(ms) \o <<"}">>

\* an object as it is, within whitespace, or behind a stray word
Wrapped(object) ==
    {object, <<" ">> \o object \o <<"\n">>, <<"x">> \o object}

Words == {"POSITIVE", "Negative", "x", " ", "{"}

InitSentiment ==
    /\ InitCall({ShortContent}, {0})
    /\ \/ wire \in Failures
       \/ \E ms \in SeqsUpTo(Members, MaxMembers) :
             \E c \in Wrapped(RenderObject(ms)) : wire = Delivers(c)
       \/ \E ws \in SeqsUpTo(Words, MaxWords) : wire = Delivers(ws)

NextSentiment == analyze_sentiment

SpecSentiment == InitSentiment /\ [][NextSentiment]_vars

(* check_relevance over short completions *)

RelevanceTokens == Digits \cup {".", "-", "+", "nan", "inf", " ", "x"}

InitRelevance ==
    /\ InitCall({ShortContent}, {0})
    /\ \/ wire \in Failures
       \/ \E c \in SeqsUpTo(RelevanceTokens, MaxRelLen) : wire = Delivers(c)

NextRelevance == check_relevance

SpecRelevance == InitRelevance /\ [][NextRelevance]_vars

(* main: the combined content of the matching elements, and the exchanges *)

MainCounts == {1, 500, 2999, 3000}
MainContents(k) == SeqsUpTo([w : Widths, n : MainCounts], k)

MainWires ==
    {SendFailed, Non2xx(TRUE, <<"e">>), Ok2xx(TRUE, <<>>),
     Delivers(<<"SUMMARY:", "x">>)}

----------------------------------------------------------------------------
(* main: the interactive front end.  One action per step of main; the two  *)
(* LLM calls are split at their await, the request being in flight in      *)
(* between.  log holds what was printed, errors returned from main and     *)
(* panics included (the runtime prints both).                              *)

Terminate(code, event) ==
    /\ pc' = "exited"
    /\ exit' = code
    /\ log' = Append(log, event)

Step(next, event) ==
    /\ pc' = next
    /\ log' = Append(log, event)
    /\ UNCHANGED exit

\* lines 18-33: the URL is prompted for, read and trimmed
main_read_url ==
    /\ pc = "read_url"
    /\ \E flushed \in BOOLEAN, url \in {"", "example.com", "https://example.com"} :
          IF ~flushed THEN Terminate(1, "flush_error")
          ELSE IF url = "" THEN Terminate(0, "no_url")
          ELSE Step("read_selector", "url")
    /\ UNCHANGED <<content, arg, wire, sent, result>>

\* lines 35-44: the selector is prompted for, read and trimmed
main_read_selector ==
    /\ pc = "read_selector"
    /\ \E flushed \in BOOLEAN, selector \in {"", "article", "a[["} :
          IF ~flushed THEN Terminate(1, "flush_error") /\ arg' = arg
          ELSE IF selector = "" THEN Terminate(0, "no_selector") /\ arg' = arg
          ELSE Step("fetch", "selector") /\ arg' = selector
    /\ UNCHANGED <<content, wire, sent, result>>

\* lines 46-57: the client is built and the page is fetched
main_fetch ==
    /\ pc = "fetch"
    /\ \E built \in BOOLEAN, fetched \in BOOLEAN :
          IF ~built THEN Terminate(1, "client_error")
          ELSE IF ~fetched THEN Terminate(1, "fetch_error")
          ELSE Step("select", "fetched")
    /\ UNCHANGED <<content, arg, wire, sent, result>>

\* lines 59-90: the selector is parsed, the matching texts are joined and a
\* snippet of the content is printed
main_select ==
    /\ pc = "select"
    /\ IF arg = "a[[" THEN Terminate(1, "selector_error") /\ content' = content
       ELSE \E c \in MainContents(MaxRuns) :
               /\ content' = c
               /\ IF c = <<>> THEN Terminate(0, "no_content")
                  ELSE IF Truncate(c, SnippetLimit).panic THEN Terminate(101, "panic")
                  ELSE Step("init_llm", "content")
    /\ UNCHANGED <<arg, wire, sent, result>>

\* a variant that returns the construction error from main
main_init_llm_propagates ==
    /\ pc = "init_llm"
    /\ \E key \in BOOLEAN :
          IF key THEN Step("analyze", "runner_initialized")
          ELSE Terminate(1, "init_failed")
    /\ UNCHANGED <<content, arg, wire, sent, result>>

\* lines 92-95, 141-146: LLMRunner::new reads LLM_API_KEY
main_init_llm ==
    /\ pc = "init_llm"
    /\ \E key \in BOOLEAN :
          IF key THEN Step("analyze", "runner_initialized")
          ELSE Terminate(0, "init_failed")
    /\ UNCHANGED <<content, arg, wire, sent, result>>

\* lines 98-103: analyze_web_content up to its await of send_prompt
main_analyze_request ==
    /\ pc = "analyze"
    /\ LET t == Truncate(content, AnalyzeLimit)
       IN  IF t.panic
           THEN Terminate(101, "panic") /\ UNCHANGED <<wire, sent>>
           ELSE \E w \in MainWires :
                   /\ wire' = w
                   /\ sent' = sent \o SendPrompt(Prompt("analyze_web_content", t.text), w).posted
                   /\ Step("analyze_wait", "analysis_requested")
    /\ UNCHANGED <<content, arg, result>>

\* lines 104-117: analyze_web_content returns and its result is printed
main_analyze_return ==
    /\ pc = "analyze_wait"
    /\ LET reply == SendPromptReply(wire)
       IN  /\ result' = Outcome("analyze_web_content", reply, ParseAnalysis(reply.text))
           /\ Step("sentiment", IF reply.ok THEN "analysis" ELSE "analysis_error")
    /\ UNCHANGED <<content, arg, wire, sent>>

\* lines 119-126: analyze_sentiment of the snippet up to its await
main_sentiment_request ==
    /\ pc = "sentiment"
    /\ IF content = <<>> THEN Terminate(0, "done") /\ UNCHANGED <<wire, sent>>
       ELSE LET t == Truncate(content, SnippetLimit)
            IN  IF t.panic
                THEN Terminate(101, "panic") /\ UNCHANGED <<wire, sent>>
                ELSE \E w \in MainWires :
                        /\ wire' = w
                        /\ sent' = sent \o SendPrompt(Prompt("analyze_sentiment", t.text), w).posted
                        /\ Step("sentiment_wait", "sentiment_requested")
    /\ UNCHANGED <<content, arg, result>>

\* lines 127-146: analyze_sentiment returns, its result is printed, Ok(())
main_sentiment_return ==
    /\ pc = "sentiment_wait"
    /\ LET reply == SendPromptReply(wire)
       IN  /\ result' = Outcome("analyze_sentiment", reply, ParseSentiment(reply.text))
           /\ Terminate(0, IF reply.ok THEN "sentiment" ELSE "sentiment_error")
    /\ UNCHANGED <<content, arg, wire, sent>>

Init ==
    /\ pc = "read_url"
    /\ content = <<>>
    /\ arg = ""
    /\ wire = SendFailed
    /\ sent = <<>>
    /\ result = NoResult
    /\ exit = -1
    /\ log = <<>>

Next ==
    \/ main_read_url
    \/ main_read_selector
    \/ main_fetch
    \/ main_select
    \/ main_init_llm
    \/ main_analyze_request
    \/ main_analyze_return
    \/ main_sentiment_request
    \/ main_sentiment_return

Spec == Init /\ [][Next]_vars

----------------------------------------------------------------------------
(* Properties of the operations *)

Done == pc = "done"

\* the completion send_prompt returned, when it returned one
Completion == SendPromptReply(wire).text
GotCompletion == SendPromptReply(wire).ok

LimitOf(op) ==
    CASE op = "analyze_web_content" -> AnalyzeLimit
      [] op = "summarize_content" -> SummarizeLimit
      [] op = "extract_topics" -> TopicsLimit
      [] op = "classify_content" -> ClassifyLimit
      [] op = "check_relevance" -> RelevanceLimit

\* runs of equal width merged: two contents are the same text iff their
\* normal forms are equal
RECURSIVE Norm(_)
Norm(c) ==
    IF c = <<>> THEN <<>>
    ELSE IF Head(c).n = 0 THEN Norm(Tail(c))
    ELSE IF Len(c) >= 2 /\ c[1].w = c[2].w
    THEN Norm(<<[w |-> c[1].w, n |-> c[1].n + c[2].n]>> \o SubSeq(c, 3, Len(c)))
    ELSE <<Head(c)>> \o Norm(Tail(c))

\* the first k characters of c
RECURSIVE TakeChars(_, _)
TakeChars(c, k) ==
    IF k = 0 \/ c = <<>> THEN <<>>
    ELSE IF k >= Head(c).n THEN <<Head(c)>> \o TakeChars(Tail(c), k - Head(c).n)
    ELSE <<[w |-> Head(c).w, n |-> k]>>

\* the first k bytes of c, whole characters only
RECURSIVE TakeBytes(_, _)
TakeBytes(c, k) ==
    IF k <= 0 \/ c = <<>> THEN <<>>
    ELSE IF k >= Head(c).w * Head(c).n
    THEN <<Head(c)>> \o TakeBytes(Tail(c), k - Head(c).w * Head(c).n)
    ELSE <<[w |-> Head(c).w, n |-> k \div Head(c).w]>>

\* C3: every operation that embeds the content sends a prompt for a content
\* longer than its limit, the embedded content being exactly the first
\* limit characters (counted as characters or as bytes); a content within
\* the limit is embedded unchanged.
C3_TruncationSendsFirstLimit ==
    Done =>
        LET limit == LimitOf(result.op)
        IN  /\ CharLen(content) > limit =>
                /\ result.tag # "panic"
                /\ Len(sent) = 1
                /\ Norm(sent[1].content) \in
                       {Norm(TakeChars(content, limit)), Norm(TakeBytes(content, limit))}
                /\ \/ CharLen(sent[1].content) = limit
                   \/ ByteLen(sent[1].content) = limit
            /\ ByteLen(content) <= limit =>
                /\ Len(sent) = 1
                /\ sent[1].content = content

\* C8: send_prompt issues exactly one POST, whatever the response, and
\* returns the first part of the first candidate, the API error with the
\* body, the empty-response error, or the transport error.
C8_SendPromptOnePostNoRetry ==
    Done =>
        /\ Len(sent) = 1
        /\ sent[1] = Prompt("send_prompt", content)
        /\ wire.kind = "send_failed" => result.tag = "err" /\ result.err.err = "transport"
        /\ wire.kind = "status" /\ wire.success /\ wire.readable =>
              IF Len(wire.candidates) >= 1 /\ Len(wire.candidates[1]) >= 1
              THEN result = Returned("send_prompt", wire.candidates[1][1])
              ELSE result.tag = "err" /\ result.err.err = "No response from LLM"
        /\ wire.kind = "status" /\ ~wire.success /\ wire.readable =>
              /\ result.tag = "err"
              /\ result.err.err = "API request failed: "
              /\ result.err.text = wire.body
        /\ wire.kind = "status" /\ ~wire.readable => result.tag = "err"

\* the first candidate has no part, the second has one: the empty-response
\* error, after one POST
C8_Witness ==
    /\ Done
    /\ Len(sent) = 1
    /\ Len(wire.candidates) = 2
    /\ wire.candidates[1] = <<>>
    /\ wire.candidates[2] # <<>>
    /\ result.tag = "err"
    /\ result.err.err = "No response from LLM"

----------------------------------------------------------------------------
(* analyze_web_content *)

FieldOf(a, p) ==
    CASE p = "SUMMARY:" -> a.summary
      [] p = "SENTIMENT:" -> a.sentiment
      [] p = "TOPICS:" -> a.key_topics
      [] p = "CATEGORY:" -> a.category

DefaultOf(p, response) ==
    CASE p = "SUMMARY:" -> response
      [] p = "SENTIMENT:" -> <<"NEUTRAL">>
      [] p = "TOPICS:" -> <<"General">>
      [] p = "CATEGORY:" -> <<"General">>

\* the lines of the completion that begin, once trimmed, with prefix p
LinesWith(p) ==
    LET ls == Lines(Completion)
    IN  {i \in 1..Len(ls) : StartsWith(Trim(ls[i]), p)}

TheLine(p) ==
    LET ls == Lines(Completion)
    IN  Trim(ls[CHOOSE i \in 1..Len(ls) : StartsWith(Trim(ls[i]), p)])

\* the rest of a line after its leading prefix, trimmed
Remainder(p) == Trim(Tail(TheLine(p)))

Analysed == Done /\ result.tag = "ok" /\ result.op = "analyze_web_content"

\* C1: when the completion has one line for each of the four prefixes, with
\* a non-empty remainder, each field is the remainder of its own line.
C1_FieldsAreRemainders ==
    Analysed /\ (\A p \in Prefixes : Cardinality(LinesWith(p)) = 1 /\ Remainder(p) # <<>>)
        => \A p \in Prefixes : FieldOf(result.val, p) = Remainder(p)

\* C2: the four fields of a returned ContentAnalysis are non-empty.
C2_AllFieldsPopulated ==
    Analysed => \A p \in Prefixes : FieldOf(result.val, p) # <<>>

\* the value the scan assigns for a line
ValueOf(p) == Trim(Replace(TheLine(p), p))

\* C7: without any prefix line the summary is the raw completion and the
\* other fields are NEUTRAL, General, General; field by field, a missing
\* prefix gives that field's default and a single prefix line with a
\* non-empty value gives that value, whatever the other fields are.
C7_FallbackPerField ==
    Analysed =>
        /\ (\A p \in Prefixes : LinesWith(p) = {}) =>
              result.val = Analysis(Completion, <<"NEUTRAL">>, <<"General">>, <<"General">>)
        /\ \A p \in Prefixes :
              /\ LinesWith(p) = {} => FieldOf(result.val, p) = DefaultOf(p, Completion)
              /\ Cardinality(LinesWith(p)) = 1 /\ ValueOf(p) # <<>> =>
                    FieldOf(result.val, p) = ValueOf(p)

\* a summary line with a value, a category line without one, no topics line
C7_Witness ==
    /\ Analysed
    /\ Cardinality(LinesWith("SUMMARY:")) = 1
    /\ Cardinality(LinesWith("CATEGORY:")) = 1
    /\ LinesWith("TOPICS:") = {}
    /\ LinesWith("SENTIMENT:") = {}
    /\ result.val = Analysis(<<"x">>, <<"NEUTRAL">>, <<"General">>, <<"General">>)

----------------------------------------------------------------------------
(* analyze_sentiment *)

Labels == {<<"POSITIVE">>, <<"NEGATIVE">>, <<"NEUTRAL">>}

SentimentReturned == Done /\ result.tag = "ok" /\ result.op = "analyze_sentiment"

\* C4: a returned SentimentResult has one of the three labels and a
\* confidence between 0 and 100.
C4_LabelAndConfidenceInRange ==
    SentimentReturned =>
        /\ result.val.label \in Labels
        /\ 0 <= result.val.confidence
        /\ result.val.confidence <= F(100, 0)

\* the tokens of the completions that spell positive, negative in any case
PositiveTokens == {"POSITIVE", "\"POSITIVE\""}
NegativeTokens == {"Negative"}

Mentions(tokens) == \E i \in 1..Len(Completion) : Completion[i] \in tokens

\* C5: analyze_sentiment returns a result whenever send_prompt returned a
\* completion; when the completion does not decode, the label is POSITIVE
\* if it mentions positive, else NEGATIVE if it mentions negative, else
\* NEUTRAL, the confidence is 50.0 and the explanation is the completion.
C5_DecodeFailureFallsBack ==
    Done /\ GotCompletion =>
        /\ result.tag = "ok"
        /\ ~DecodeSentiment(Completion).ok =>
              /\ result.val.label =
                     IF Mentions(PositiveTokens) THEN <<"POSITIVE">>
                     ELSE IF Mentions(NegativeTokens) THEN <<"NEGATIVE">>
                     ELSE <<"NEUTRAL">>
              /\ result.val.confidence = F(50, 0)
              /\ result.val.explanation = Completion

\* a complete object behind a stray word does not decode; it holds the
\* string "POSITIVE", so the label is POSITIVE and the text is the explanation
C5_Witness ==
    /\ SentimentReturned
    /\ Len(Completion) = 14
    /\ Completion[1] = "x"
    /\ DecodeSentiment(Tail(Completion)).ok
    /\ Mentions(PositiveTokens)
    /\ result.val = Sentiment(<<"POSITIVE">>, F(50, 0), Completion)

----------------------------------------------------------------------------
(* check_relevance *)

RelevanceReturned == Done /\ result.tag = "ok" /\ result.op = "check_relevance"

\* v clamped to [0, 100]: by the comparisons of f64, which a NaN fails
Clamp(v) ==
    IF Less(v, Zero) THEN Zero ELSE IF Less(Hundred, v) THEN Hundred ELSE v

InRange(r) == r.kind = "num" /\ ~Less(r, Zero) /\ ~Less(Hundred, r)

\* C6 as stated: a completion that parses gives the parsed value clamped
\* to [0, 100], one that does not parse gives 0.0.
C6_ScoreIsClampedParse ==
    RelevanceReturned =>
        LET parsed == ParseF64(Trim(Completion))
        IN  IF parsed.ok
            THEN InRange(result.val) /\ result.val = Clamp(parsed.val)
            ELSE result.val = Zero

\* C6 as amended: the score is within [0, 100]; a completion that parses as
\* a number (infinities included) gives that number clamped, NaN gives
\* 100.0, and one that does not parse gives 0.0.
C6_ScoreIsClampedParseOrNaN100 ==
    RelevanceReturned =>
        LET parsed == ParseF64(Trim(Completion))
        IN  /\ InRange(result.val)
            /\ result.val =
                  IF ~parsed.ok THEN Zero
                  ELSE IF parsed.val = NaN THEN Hundred
                  ELSE Clamp(parsed.val)

\* "42.5" gives 42.5
C6_Witness ==
    /\ RelevanceReturned
    /\ Completion = <<"4", "2", ".", "5">>
    /\ result.val = Num(42, 5 * (Scale \div 10))

----------------------------------------------------------------------------
(* main *)

Exited == pc = "exited"

Logged(event) == \E i \in 1..Len(log) : log[i] = event

Requested(op) == \E i \in 1..Len(sent) : sent[i].op = op

\* C9: once the runner is constructed, the run does not end before the
\* sentiment analysis was requested, and a failure is printed, not fatal.
C9_SentimentAlwaysAttempted ==
    Exited /\ Logged("runner_initialized") =>
        /\ Requested("analyze_sentiment")
        /\ exit = 0

ListedEvents == {"selector_error", "no_content", "init_failed",
                 "analysis_error", "sentiment_error"}

\* C10 as stated, for the events it lists: an invalid CSS selector, no
\* matching element, a missing API key and a failed LLM call do not end the
\* process with a non-zero code.
C10_ListedEventsExitZero ==
    Exited /\ log[Len(log)] \in ListedEvents => exit = 0

\* C10 as amended: the exit code is 0 on an empty URL, an empty selector, no
\* matching element, a missing API key and on completion, whatever the LLM
\* calls returned; it is 1 when an error is returned from main (stdout
\* flush, client build, page fetch, selector parse) and 101 on a panic.
C10_ExitCodes ==
    Exited =>
        /\ exit \in {0, 1, 101}
        /\ exit = 0 <=> log[Len(log)] \in
              {"no_url", "no_selector", "no_content", "init_failed",
               "sentiment", "sentiment_error", "done"}
        /\ exit = 1 <=> log[Len(log)] \in
              {"flush_error", "client_error", "fetch_error", "selector_error"}
        /\ exit = 101 <=> log[Len(log)] = "panic"

\* both LLM calls failed and the process still ended with code 0
C10_Witness ==
    /\ Exited
    /\ exit = 0
    /\ Logged("analysis_error")
    /\ log[Len(log)] = "sentiment_error"

============================================================================
